---- MODULE Spec2Model ----
(***************************************************************************)
(* Model of the delivery orchestrator (track dispatch) and the PR monitor  *)
(* (track gh watch) of myuon/track.                                        *)
(*                                                                         *)
(* Texts whose content is parsed by the program (command outputs, PR       *)
(* references, check states) are sequences of one-character strings, so    *)
(* that trimming, lowering and number parsing are computed, not assumed.   *)
(* Identifiers that are only compared or concatenated are TLA+ strings.    *)
(***************************************************************************)
EXTENDS Integers, Sequences, FiniteSets, TLC

(* ------------------------------------------------------------------ *)
(* Bounds of the model                                                 *)
(* ------------------------------------------------------------------ *)
MaxRuns == 2
MaxPolls == 2

(* ------------------------------------------------------------------ *)
(* Text helpers (Go strings package)                                   *)
(* ------------------------------------------------------------------ *)
Digits == <<"0", "1", "2", "3", "4", "5", "6", "7", "8", "9">>

IsDigit(c) == \E i \in 1..10 : Digits[i] = c

DigitVal(c) == (CHOOSE i \in 1..10 : Digits[i] = c) - 1

IsSpace(c) == c \in {" ", "\n", "\t", "\r"}

RECURSIVE TrimLeft(_)
TrimLeft(s) == IF s # <<>> /\ IsSpace(Head(s)) THEN TrimLeft(Tail(s)) ELSE s

RECURSIVE TrimRight(_)
TrimRight(s) ==
  IF s # <<>> /\ IsSpace(s[Len(s)]) THEN TrimRight(SubSeq(s, 1, Len(s) - 1)) ELSE s

TrimSpace(s) == TrimRight(TrimLeft(s))

UpperCase == <<"A", "B", "C", "D", "E", "F", "G", "H", "I", "J", "K", "L", "M",
               "N", "O", "P", "Q", "R", "S", "T", "U", "V", "W", "X", "Y", "Z">>
LowerCase == <<"a", "b", "c", "d", "e", "f", "g", "h", "i", "j", "k", "l", "m",
               "n", "o", "p", "q", "r", "s", "t", "u", "v", "w", "x", "y", "z">>

\* unicode.ToLower on the letters A-Z; every other character is kept
LowerMap == [i \in 1..26 |-> LowerCase[i]]

UpperIndex == [c \in {UpperCase[i] : i \in 1..26} |-> CHOOSE i \in 1..26 : UpperCase[i] = c]

LowerChar(c) == IF c \in DOMAIN UpperIndex THEN LowerMap[UpperIndex[c]] ELSE c

ToLower(s) == [i \in 1..Len(s) |-> LowerChar(s[i])]

EqualFold(s, t) == ToLower(s) = ToLower(t)

RECURSIVE DigitsValue(_)
DigitsValue(s) ==
  IF s = <<>> THEN 0
  ELSE 10 * DigitsValue(SubSeq(s, 1, Len(s) - 1)) + DigitVal(s[Len(s)])

AllDigits(s) == s # <<>> /\ \A i \in 1..Len(s) : IsDigit(s[i])

\* strconv.Atoi: an optional sign followed by decimal digits, anything else an error.
Atoi(s) ==
  IF s # <<>> /\ s[1] \in {"+", "-"}
  THEN IF AllDigits(Tail(s))
       THEN [ok |-> TRUE,
             val |-> IF s[1] = "-" THEN 0 - DigitsValue(Tail(s)) ELSE DigitsValue(Tail(s))]
       ELSE [ok |-> FALSE, val |-> 0]
  ELSE IF AllDigits(s) THEN [ok |-> TRUE, val |-> DigitsValue(s)]
       ELSE [ok |-> FALSE, val |-> 0]

RECURSIVE Itoa(_)
Itoa(n) == IF n < 10 THEN <<Digits[n + 1]>> ELSE Itoa(n \div 10) \o <<Digits[(n % 10) + 1]>>

RECURSIVE TrailingDigits(_)
TrailingDigits(s) ==
  IF s # <<>> /\ IsDigit(s[Len(s)])
  THEN TrailingDigits(SubSeq(s, 1, Len(s) - 1)) \o <<s[Len(s)]>>
  ELSE <<>>

\* prNumberRe = ([0-9]+)$ : the trailing digits of the trimmed text, else the trimmed text.
\* faulty variant of normalizePRRef: a text without trailing digits is not trimmed
normalizePRRefMut(v) ==
  LET t == TrimSpace(v) IN
  IF TrailingDigits(t) # <<>> THEN TrailingDigits(t) ELSE v

normalizePRRef(v) ==
  LET t == TrimSpace(v) IN
  IF t = <<>> THEN t
  ELSE IF TrailingDigits(t) # <<>> THEN TrailingDigits(t) ELSE t

\* the characters issueSlug keeps: a-z, 0-9, '.', '_' and '-'
SlugAllowed ==
  {LowerCase[i] : i \in 1..26} \cup {Digits[i] : i \in 1..10} \cup {".", "_", "-"}

\* the loop of issueSlug over the runes of the lowered text: b is the builder,
\* prevDash whether the last rune written or skipped counts as a dash
RECURSIVE slugWrite(_, _, _)
slugWrite(raw, b, prevDash) ==
  IF raw = <<>> THEN b
  ELSE LET r == Head(raw) IN
       IF r \in SlugAllowed
       THEN IF r = "-"
            THEN (IF prevDash THEN slugWrite(Tail(raw), b, TRUE)
                  ELSE slugWrite(Tail(raw), Append(b, r), TRUE))
            ELSE slugWrite(Tail(raw), Append(b, r), FALSE)
       ELSE IF ~prevDash /\ b # <<>>
            THEN slugWrite(Tail(raw), Append(b, "-"), TRUE)
            ELSE slugWrite(Tail(raw), b, prevDash)

\* strings.Trim(s, "-")
\* faulty variant of TrimDashes: nothing is trimmed
TrimDashesMut(s) == s

RECURSIVE TrimDashes(_)
TrimDashes(s) ==
  IF s # <<>> /\ Head(s) = "-" THEN TrimDashes(Tail(s))
  ELSE IF s # <<>> /\ s[Len(s)] = "-" THEN TrimDashes(SubSeq(s, 1, Len(s) - 1))
  ELSE s

slugFallback == <<"i", "s", "s", "u", "e">>

issueSlug(issueID) ==
  LET slug == TrimDashes(slugWrite(ToLower(TrimSpace(issueID)), <<>>, FALSE)) IN
  IF slug = <<>> THEN slugFallback ELSE slug

\* branch = "codex/" + slug
branchOf(slug) == <<"c", "o", "d", "e", "x", "/">> \o slug

\* worktreeDir = filepath.Join(repoRoot, ".worktree", slug)
worktreePath(repoRoot, slug) ==
  repoRoot \o <<"/", ".", "w", "o", "r", "k", "t", "r", "e", "e", "/">> \o slug

(* ------------------------------------------------------------------ *)
(* Issue store                                                         *)
(* ------------------------------------------------------------------ *)
StatusTodo == "todo"
StatusReady == "ready"
StatusInProgress == "in_progress"
StatusDone == "done"
StatusArchived == "archived"
dispatchFinishedStatus == "finished"

validStatuses == {StatusTodo, StatusReady, StatusInProgress, StatusDone, StatusArchived}

IssueUpdated == "issue.updated"
IssueStatusChange == "issue.status_changed"
IssueCompleted == "issue.completed"

IssueIDs == {"TRK-1", "TRK-2"}
NoIssue == "<no row>"

\* issue.ValidateStatus: membership in the fixed map of built-in statuses.
IssueValidateStatus(v) == v \in validStatuses

\* Store.ValidateStatus: a built-in status, or a row of the statuses table.
StoreValidateStatus(table, v) == IssueValidateStatus(v) \/ v \in table

\* Store.AddStatus for a name that is already lower case and trimmed.
AddStatus(table, name) ==
  IF StoreValidateStatus(table, name)
  THEN [table |-> table, err |-> "status already exists"]
  ELSE [table |-> table \cup {name}, err |-> ""]

\* ensureFinishedStatus: "status already exists" is tolerated.
ensureFinishedStatus(table) ==
  LET r == AddStatus(table, dispatchFinishedStatus) IN
  [table |-> r.table, err |-> r.err \notin {"", "status already exists"}]

\* Store.GetIssue: an error when the row does not exist.
GetIssueOK(iss, id) == iss[id] # NoIssue

\* Store.UpdateIssue with only Status set.
\* faulty variant of UpdateIssue: the status is written to every row
UpdateIssueMut(iss, id, status) ==
  IF ~GetIssueOK(iss, id) THEN [issues |-> iss, err |-> TRUE]
  ELSE IF ~IssueValidateStatus(status) THEN [issues |-> iss, err |-> TRUE]
  ELSE [issues |-> [i \in DOMAIN iss |-> status], err |-> FALSE]

UpdateIssue(iss, id, status) ==
  IF ~GetIssueOK(iss, id) THEN [issues |-> iss, err |-> TRUE]
  ELSE IF ~IssueValidateStatus(status) THEN [issues |-> iss, err |-> TRUE]
  ELSE [issues |-> [iss EXCEPT ![id] = status], err |-> FALSE]

(* ------------------------------------------------------------------ *)
(* Dispatch: state                                                     *)
(* ------------------------------------------------------------------ *)
VARIABLES
  issues,        \* store: issue id -> stored status, or NoIssue
  statuses,      \* store: names in the statuses table beyond the built-in rows
  worktree,      \* file system at <root>/.worktree/<slug>: "absent", "dir" or "file"
  branchExists,  \* git: refs/heads/codex/<slug> exists
  openPRs,       \* code host: numbers of the open PRs whose head is the branch
  opts,          \* dispatchOptions of the current invocation
  run,           \* DispatchRun: the locals of runDispatch and its position
  issued,        \* commands handed to the dispatchCommandRunner by this invocation
  events,        \* hooks.RunEvent calls of this invocation, in order
  runs           \* invocations started so far

dispatchVars ==
  <<issues, statuses, worktree, branchExists, openPRs, opts, run, issued, events, runs>>

DispatchIssue == "TRK-1"
DispatchIssueText == <<"T", "R", "K", "-", "1">>
NewPR == 42

NoText == <<>>
PathText == <<"/", "r">>
CleanCount == <<"0">>
AheadCount == <<"2", "\n">>
PorcelainText == <<" ", "M", " ", "f">>
URLText == <<" ", "p", "/", "4", "2", " ">>
JunkText == <<"x">>

\* What the outside world answers during one step: the outcomes of up to three
\* external calls in call order (commands, or hook runs) and up to two outputs.
\* Fields a step does not read are fixed.
EnvOf(as, bs, cs, o1, o2) == [a : as, b : bs, c : cs, out1 : o1, out2 : o2]

Env(pc) ==
  CASE pc = 1 -> EnvOf(BOOLEAN, BOOLEAN, {TRUE}, {NoText}, {NoText})
    [] pc = 2 -> EnvOf(BOOLEAN, BOOLEAN, BOOLEAN, {NoText, PathText}, {NoText})
    [] pc = 3 -> EnvOf(BOOLEAN, {TRUE}, {TRUE}, {NoText}, {NoText})
    [] pc = 4 -> EnvOf(BOOLEAN, BOOLEAN, {TRUE}, {NoText, PorcelainText},
                       {CleanCount, AheadCount, JunkText})
    [] pc = 5 -> EnvOf(BOOLEAN, BOOLEAN, BOOLEAN, {NoText}, {NoText})
    [] pc = 6 -> EnvOf(BOOLEAN, BOOLEAN, BOOLEAN, {NoText, URLText, JunkText}, {NoText})
    [] pc = 7 -> EnvOf(BOOLEAN, BOOLEAN, {TRUE}, {NoText}, {NoText})
    [] pc = 8 -> EnvOf(BOOLEAN, {TRUE}, {TRUE}, {NoText}, {NoText})
    [] pc = 9 -> EnvOf(BOOLEAN, {TRUE}, {TRUE}, {NoText}, {NoText})
    [] OTHER -> EnvOf(BOOLEAN, BOOLEAN, BOOLEAN, {NoText}, {NoText})

MergeMethods == {"merge", "squash", "rebase"}

StepNames ==
  <<"prepare issue status", "prepare worktree", "run implementation runner",
    "detect changes", "commit and push", "create or reuse PR", "mark issue finished",
    "watch CI checks", "merge PR", "mark issue done">>

World ==
  [issues |-> issues, statuses |-> statuses, worktree |-> worktree,
   branchExists |-> branchExists, openPRs |-> openPRs, run |-> run,
   issued |-> issued, events |-> events]

Ran(s, cmd, ok, pr, flag) ==
  [s EXCEPT !.issued = Append(@, [cmd |-> cmd, ok |-> ok, pr |-> pr, flag |-> flag])]

Fired(s, event, ok) ==
  [s EXCEPT !.events = Append(@, [event |-> event, ok |-> ok])]

Ok(s) == [s |-> s, err |-> FALSE]
Fail(s) == [s |-> s, err |-> TRUE]

\* updateIssueStatus: the store update, then issue.updated, issue.status_changed and,
\* for "done", issue.completed; h gives the outcome of each hook run.
\* faulty variant of updateIssueStatus: the errors of the hook runs are dropped
updateIssueStatusMut(s, id, status, h) ==
  LET u == UpdateIssue(s.issues, id, status)
      s0 == [s EXCEPT !.issues = u.issues]
      s1 == Fired(s0, IssueUpdated, h[1])
      s2 == Fired(s1, IssueStatusChange, h[2])
      s3 == Fired(s2, IssueCompleted, h[3])
  IN IF u.err THEN Fail(s)
     ELSE IF status = StatusDone THEN Ok(s3)
     ELSE Ok(s2)

\* faulty variant of updateIssueStatus: a failing hook restores the stored status
updateIssueStatusUndo(s, id, status, h) ==
  LET u == UpdateIssue(s.issues, id, status)
      s0 == [s EXCEPT !.issues = u.issues]
      s1 == Fired(s0, IssueUpdated, h[1])
      s2 == Fired(s1, IssueStatusChange, h[2])
      s3 == Fired(s2, IssueCompleted, h[3])
  IN IF u.err THEN Fail(s)
     ELSE IF ~h[1] THEN Fail([s1 EXCEPT !.issues = s.issues])
     ELSE IF ~h[2] THEN Fail([s2 EXCEPT !.issues = s.issues])
     ELSE IF status = StatusDone
          THEN (IF ~h[3] THEN Fail([s3 EXCEPT !.issues = s.issues]) ELSE Ok(s3))
     ELSE Ok(s2)

updateIssueStatus(s, id, status, h) ==
  LET u == UpdateIssue(s.issues, id, status)
      s0 == [s EXCEPT !.issues = u.issues]
      s1 == Fired(s0, IssueUpdated, h[1])
      s2 == Fired(s1, IssueStatusChange, h[2])
      s3 == Fired(s2, IssueCompleted, h[3])
  IN IF u.err THEN Fail(s)
     ELSE IF ~h[1] THEN Fail(s1)
     ELSE IF ~h[2] THEN Fail(s2)
     ELSE IF status = StatusDone THEN (IF ~h[3] THEN Fail(s3) ELSE Ok(s3))
     ELSE Ok(s2)

(* ------------------------------------------------------------------ *)
(* Dispatch: the ten steps of runDispatch                              *)
(* Each takes the world s and the step's environment e and returns the *)
(* new world and whether the step's closure returned an error.         *)
(* ------------------------------------------------------------------ *)

\* faulty variant of prepareIssueStatus: an issue that is already done is left done
prepareIssueStatusMut(s, e) ==
  IF ~GetIssueOK(s.issues, DispatchIssue) THEN Fail(s)
  ELSE IF s.issues[DispatchIssue] = StatusDone THEN Ok(s)
  ELSE LET u == updateIssueStatus(s, DispatchIssue, StatusInProgress, <<e.a, e.b, e.c>>)
           f == ensureFinishedStatus(u.s.statuses)
       IN IF u.err THEN u
          ELSE IF f.err THEN Fail(u.s)
          ELSE Ok([u.s EXCEPT !.statuses = f.table])

\* step 1, "prepare issue status"
prepareIssueStatus(s, e) ==
  IF ~GetIssueOK(s.issues, DispatchIssue) THEN Fail(s)
  ELSE LET u == updateIssueStatus(s, DispatchIssue, StatusInProgress, <<e.a, e.b, e.c>>)
           f == ensureFinishedStatus(u.s.statuses)
       IN IF u.err THEN u
          ELSE IF f.err THEN Fail(u.s)
          ELSE Ok([u.s EXCEPT !.statuses = f.table])

\* os.Stat succeeded: whether the path is a directory
\* faulty variant of IsDir: an existing directory is not recognised
IsDirMut(wt) == FALSE

IsDir(wt) == wt = "dir"

\* the git worktree add command chosen from the outcome of git show-ref
\* faulty variant of worktreeAddCmd: the branch is always created
worktreeAddCmdMut(branchErrNil) == "git worktree add -b"

worktreeAddCmd(branchErrNil) ==
  IF branchErrNil THEN "git worktree add" ELSE "git worktree add -b"

\* step 2, "prepare worktree": e.a is git rev-parse, e.out1 its output, e.b is
\* os.MkdirAll of .worktree (which does nothing when the directory exists, as it
\* does when the worktree path below it exists), e.c is git worktree add.
\* run.stat records what os.Stat found at the worktree path.
prepareWorktree(s, e) ==
  LET s1 == Ran(s, "git rev-parse", e.a, NoText, "")
      repoRoot == TrimSpace(e.out1)
      slug == issueSlug(DispatchIssueText)
      s1b == [s1 EXCEPT !.run.branch = branchOf(slug),
                        !.run.worktreeDir = worktreePath(repoRoot, slug)]
      s1s == [s1b EXCEPT !.run.stat = s.worktree]
      s2 == Ran(s1s, "git show-ref", s.branchExists, NoText, "")
      s3 == Ran(s2, worktreeAddCmd(s.branchExists), e.c, NoText, "")
  IN IF ~e.a THEN Fail(s1)
     ELSE IF repoRoot = NoText THEN Fail(s1)
     ELSE IF ~e.b /\ s.worktree = "absent" THEN Fail(s1b)
     ELSE IF s.worktree # "absent"
          THEN (IF ~IsDir(s.worktree) THEN Fail(s1s) ELSE Ok(s1s))
     ELSE IF e.c THEN Ok([s3 EXCEPT !.worktree = "dir", !.branchExists = TRUE])
     ELSE Fail(s3)

\* step 3, "run implementation runner": e.a is the runner's exit status.
runImplementationRunner(s, e) ==
  LET s1 == Ran(s, "runner", e.a, NoText, "") IN
  IF e.a THEN Ok(s1) ELSE Fail(s1)

\* faulty variant of HasDirty: the worktree always counts as dirty
HasDirtyMut(statusOut) == TRUE

HasDirty(statusOut) == TrimSpace(statusOut) # NoText

\* faulty variant of HasCommits: a zero count is taken for commits ahead
HasCommitsMut(count) == count >= 0

HasCommits(count) == count > 0

\* step 4, "detect changes": e.a and e.out1 are git status --porcelain, e.b and
\* e.out2 are git rev-list --count.
detectChanges(s, e) ==
  LET s1 == Ran(s, "git status", e.a, NoText, "")
      s2 == Ran([s1 EXCEPT !.run.hasDirty = HasDirty(e.out1), !.run.statusOut = e.out1],
                "git rev-list", e.b, NoText, "")
      n == Atoi(TrimSpace(e.out2))
  IN IF ~e.a THEN Fail(s1)
     ELSE IF ~e.b THEN Fail(s2)
     ELSE IF ~n.ok THEN Fail(s2)
     ELSE Ok([s2 EXCEPT !.run.hasCommits = HasCommits(n.val), !.run.revOut = e.out2,
                        !.run.detected = TRUE])

\* the early return after step 4
NoChanges(r) == ~r.hasDirty /\ ~r.hasCommits

\* step 5, "commit and push": e.a is git add, e.b is git commit, e.c is git push.
commitAndPush(s, e) ==
  LET s1 == Ran(s, "git add", e.a, NoText, "")
      s2 == Ran(s1, "git commit", e.b, NoText, "")
      s3 == Ran(IF s.run.hasDirty THEN s2 ELSE s, "git push", e.c, NoText, "")
  IN IF s.run.hasDirty /\ ~e.a THEN Fail(s1)
     ELSE IF s.run.hasDirty /\ ~e.b THEN Fail(s2)
     ELSE IF e.c THEN Ok(s3) ELSE Fail(s3)

\* a faulty variant of firstListed: the last listed pull request is taken
firstListedMut(prs) == Itoa(prs[Len(prs)])

\* strconv.Itoa(prs[0].Number): the reference of a reused pull request
firstListed(prs) == Itoa(prs[1])

\* what gh pr list gave: nothing (the command failed), output that does not decode,
\* or the decoded list of open pull requests of the branch
Listing(state, prs) == [state |-> state, prs |-> prs]

NotListed == Listing("", <<>>)

\* ensureDispatchPR: e.a is gh pr list, e.b whether its output decodes as a JSON
\* list, e.c is gh pr create and e.out1 what it printed.
ensureDispatchPR(s, e) ==
  LET l1 == Ran(s, "gh pr list", e.a, NoText, "")
      s1 == [l1 EXCEPT !.run.listing =
               IF ~e.a THEN Listing("failed", <<>>)
               ELSE IF ~e.b THEN Listing("undecodable", <<>>)
               ELSE Listing("decoded", s.openPRs)]
      s2 == Ran(s1, "gh pr create", e.c, NoText, "")
      s3 == [s2 EXCEPT !.openPRs = <<NewPR>>, !.run.createOut = e.out1]
      ref == normalizePRRef(e.out1)
  IN IF ~e.a THEN [s |-> s1, ref |-> NoText, err |-> TRUE]
     ELSE IF ~e.b THEN [s |-> s1, ref |-> NoText, err |-> TRUE]
     ELSE IF Len(s.openPRs) > 0 THEN [s |-> s1, ref |-> firstListed(s.openPRs), err |-> FALSE]
     ELSE IF ~e.c THEN [s |-> s2, ref |-> NoText, err |-> TRUE]
     ELSE IF ref = NoText THEN [s |-> s3, ref |-> NoText, err |-> TRUE]
     ELSE [s |-> s3, ref |-> ref, err |-> FALSE]

\* step 6, "create or reuse PR"
createOrReusePR(s, e) ==
  LET r == ensureDispatchPR(s, e) IN
  IF r.err THEN Fail(r.s) ELSE Ok([r.s EXCEPT !.run.prRef = r.ref])

\* step 7, "mark issue finished": e.a, e.b are the hook runs.
markIssueFinished(s, e) ==
  updateIssueStatus(s, DispatchIssue, dispatchFinishedStatus, <<e.a, e.b, e.c>>)

\* step 8, "watch CI checks": e.a is gh pr checks <pr> --watch.
watchCIChecks(s, e) ==
  LET s1 == Ran(s, "gh pr checks", e.a, s.run.prRef, "--watch") IN
  IF e.a THEN Ok(s1) ELSE Fail(s1)

methodFlag(method) ==
  IF method = "rebase" THEN "--rebase"
  ELSE IF method = "squash" THEN "--squash"
  ELSE "--merge"

RECURSIVE Without(_, _)
Without(prs, ref) ==
  IF prs = <<>> THEN <<>>
  ELSE IF Itoa(Head(prs)) = ref THEN Without(Tail(prs), ref)
  ELSE <<Head(prs)>> \o Without(Tail(prs), ref)

\* step 9, "merge PR": e.a is gh pr merge <pr> <flag> --delete-branch.
mergePR(s, e, o) ==
  LET s1 == Ran(s, "gh pr merge", e.a, s.run.prRef, methodFlag(o.MergeMethod)) IN
  IF e.a THEN Ok([s1 EXCEPT !.openPRs = Without(@, s.run.prRef)]) ELSE Fail(s1)

\* step 10, "mark issue done": e.a, e.b, e.c are the hook runs.
markIssueDone(s, e) ==
  updateIssueStatus(s, DispatchIssue, StatusDone, <<e.a, e.b, e.c>>)

(* ------------------------------------------------------------------ *)
(* PR monitor: state                                                   *)
(* ------------------------------------------------------------------ *)
VARIABLES
  links,         \* store: the github_links rows, in issue_id order
  repoFlag,      \* the --repo flag of "track gh watch" ("" when not given)
  seenFailures,  \* the dedupe keys of the failing checks already reported
  reported,      \* how often each failing check was reported, over all polls
  mon,           \* the watch command: its position, result and counters
  poll           \* what the most recent call of runGHWatchOnce did

monitorVars == <<links, repoFlag, seenFailures, reported, mon, poll>>

(* ------------------------------------------------------------------ *)
(* Pure functions: state of one call                                   *)
(* ------------------------------------------------------------------ *)
VARIABLES
  calc           \* one call of a pure function: its name, argument and result

\* no call of a pure function is under way
NoCalc == [fn |-> "", arg |-> <<>>, out |-> <<>>, done |-> TRUE]

PureIdle == calc = NoCalc

vars ==
  <<issues, statuses, worktree, branchExists, openPRs, opts, run, issued, events, runs,
    links, repoFlag, seenFailures, reported, mon, poll, calc>>

(* ------------------------------------------------------------------ *)
(* Dispatch: the invocation and its step runner                        *)
(* ------------------------------------------------------------------ *)
NewRun ==
  [pc |-> 1, stepIndex |-> 0, result |-> "running", exit |-> "", failedStep |-> 0,
   failedName |-> "", prRef |-> NoText, hasDirty |-> FALSE, hasCommits |-> FALSE,
   detected |-> FALSE, statusOut |-> NoText, revOut |-> NoText,
   branch |-> NoText, worktreeDir |-> NoText, stat |-> "", printed |-> <<>>,
   listing |-> NotListed, createOut |-> NoText, before |-> ""]

IdleRun == [NewRun EXCEPT !.result = "idle"]

\* the closure of the step at position pc
StepBody(s, e, o) ==
  CASE s.run.pc = 1 -> prepareIssueStatus(s, e)
    [] s.run.pc = 2 -> prepareWorktree(s, e)
    [] s.run.pc = 3 -> runImplementationRunner(s, e)
    [] s.run.pc = 4 -> detectChanges(s, e)
    [] s.run.pc = 5 -> commitAndPush(s, e)
    [] s.run.pc = 6 -> createOrReusePR(s, e)
    [] s.run.pc = 7 -> markIssueFinished(s, e)
    [] s.run.pc = 8 -> watchCIChecks(s, e)
    [] s.run.pc = 9 -> mergePR(s, e, o)
    [] OTHER -> markIssueDone(s, e)

\* faulty variant of runStep: the error of a step is reported but not returned
runStepMut(s, e, o) ==
  LET pc == s.run.pc
      idx == s.run.stepIndex + 1
      r == StepBody([s EXCEPT !.run.stepIndex = idx,
                              !.run.printed = Append(@, <<idx, StepNames[pc]>>)], e, o)
      n == IF r.err
           THEN [r.s EXCEPT !.run.failedStep = idx, !.run.failedName = StepNames[pc]]
           ELSE r.s
  IN IF pc = 4 /\ NoChanges(n.run)
     THEN [n EXCEPT !.run.result = "nil", !.run.exit = "no changes"]
     ELSE IF pc = 8 /\ o.NoMerge
     THEN [n EXCEPT !.run.result = "nil", !.run.exit = "no merge"]
     ELSE IF pc = 10
     THEN [n EXCEPT !.run.result = "nil", !.run.exit = "done"]
     ELSE [n EXCEPT !.run.pc = pc + 1]

\* runStep followed by the code between it and the next runStep: the step index is
\* advanced, a failing closure ends the run with the step's index and name, and the
\* run returns nil after step 4 without changes, after step 8 with --no-merge and
\* after step 10.
runStep(s, e, o) ==
  LET pc == s.run.pc
      idx == s.run.stepIndex + 1
      r == StepBody([s EXCEPT !.run.stepIndex = idx,
                              !.run.printed = Append(@, <<idx, StepNames[pc]>>)], e, o)
      n == r.s
  IN IF r.err
     THEN [n EXCEPT !.run.result = "err", !.run.failedStep = idx,
                    !.run.failedName = StepNames[pc]]
     ELSE IF pc = 4 /\ NoChanges(n.run)
     THEN [n EXCEPT !.run.result = "nil", !.run.exit = "no changes"]
     ELSE IF pc = 8 /\ o.NoMerge
     THEN [n EXCEPT !.run.result = "nil", !.run.exit = "no merge"]
     ELSE IF pc = 10
     THEN [n EXCEPT !.run.result = "nil", !.run.exit = "done"]
     ELSE [n EXCEPT !.run.pc = pc + 1]

\* "track dispatch <issue_id>" is invoked: runDispatch starts with fresh locals.
StartDispatch ==
  /\ run.result # "running"
  /\ runs < MaxRuns
  /\ runs' = runs + 1
  /\ opts' \in [NoMerge : BOOLEAN, MergeMethod : MergeMethods]
  /\ run' = [NewRun EXCEPT !.before = issues[DispatchIssue]]
  /\ issued' = <<>>
  /\ events' = <<>>
  /\ UNCHANGED <<issues, statuses, worktree, branchExists, openPRs>>
  /\ UNCHANGED monitorVars
  /\ UNCHANGED calc

\* The next step of the running invocation executes.
RunStep ==
  /\ run.result = "running"
  /\ \E e \in Env(run.pc) :
       LET n == runStep(World, e, opts) IN
       /\ issues' = n.issues
       /\ statuses' = n.statuses
       /\ worktree' = n.worktree
       /\ branchExists' = n.branchExists
       /\ openPRs' = n.openPRs
       /\ run' = n.run
       /\ issued' = n.issued
       /\ events' = n.events
  /\ UNCHANGED <<opts, runs>>
  /\ UNCHANGED monitorVars
  /\ UNCHANGED calc

DispatchInit ==
  /\ issues \in { [i \in IssueIDs |-> IF i = DispatchIssue THEN st ELSE StatusTodo] :
                  st \in {StatusTodo, StatusDone, NoIssue} }
  /\ statuses \in { {}, {dispatchFinishedStatus} }
  /\ worktree \in {"absent", "dir", "file"}
  /\ branchExists \in BOOLEAN
  /\ openPRs \in { <<>>, <<7>>, <<9, 7>> }
  /\ opts = [NoMerge |-> FALSE, MergeMethod |-> "merge"]
  /\ run = IdleRun
  /\ issued = <<>>
  /\ events = <<>>
  /\ runs = 0

MonitorIdle ==
  /\ links = <<>>
  /\ repoFlag = ""
  /\ seenFailures = {}
  /\ reported = <<>>
  /\ mon = [pc |-> "idle"]
  /\ poll = <<>>

Init == DispatchInit /\ MonitorIdle /\ PureIdle

Next == StartDispatch \/ RunStep

Spec == Init /\ [][Next]_vars

(* ------------------------------------------------------------------ *)
(* PR monitor: helpers of github.go                                    *)
(* ------------------------------------------------------------------ *)
FailureStates ==
  { <<"f", "a", "i", "l", "u", "r", "e">>,
    <<"f", "a", "i", "l", "e", "d">>,
    <<"e", "r", "r", "o", "r">>,
    <<"t", "i", "m", "e", "d", "_", "o", "u", "t">>,
    <<"c", "a", "n", "c", "e", "l", "l", "e", "d">>,
    <<"a", "c", "t", "i", "o", "n", "_", "r", "e", "q", "u", "i", "r", "e", "d">>,
    <<"s", "t", "a", "r", "t", "u", "p", "_", "f", "a", "i", "l", "u", "r", "e">> }

isFailureState(state) == ToLower(TrimSpace(state)) \in FailureStates

PendingStates ==
  { <<"p", "e", "n", "d", "i", "n", "g">>,
    <<"q", "u", "e", "u", "e", "d">>,
    <<"i", "n", "_", "p", "r", "o", "g", "r", "e", "s", "s">>,
    <<"w", "a", "i", "t", "i", "n", "g">>,
    <<"r", "e", "q", "u", "e", "s", "t", "e", "d">> }

\* faulty variant of isPendingState: no state counts as pending
isPendingStateMut(state) == FALSE

isPendingState(state) == ToLower(TrimSpace(state)) \in PendingStates

\* the loop of summarizeChecks over a non-empty list: the first failing check
\* returns "failure", otherwise hasPending decides
RECURSIVE summarizeLoop(_, _)
summarizeLoop(checks, hasPending) ==
  IF checks = <<>> THEN (IF hasPending THEN "pending" ELSE "success")
  ELSE IF isFailureState(Head(checks).State) THEN "failure"
  ELSE summarizeLoop(Tail(checks), hasPending \/ isPendingState(Head(checks).State))

summarizeChecks(checks) ==
  IF Len(checks) = 0 THEN "pending" ELSE summarizeLoop(checks, FALSE)

repoForLink(link, repoOverride) == IF repoOverride # "" THEN repoOverride ELSE link.Repo

\* the dedupe key of runGHWatchOnce
FailureKey(link, check) == link.IssueID \o "::" \o check.Name \o "::" \o check.Link

\* fetchPRMerged on a decoded "gh pr view --json state,mergedAt" answer
\* faulty variant of prMerged: the state of the PR is not looked at
prMergedMut(view) == view.MergedAt

prMerged(view) == IF view.MergedAt THEN TRUE ELSE EqualFold(view.State, <<"M", "E", "R", "G", "E", "D">>)

(* ------------------------------------------------------------------ *)
(* PR monitor: what gh can answer                                      *)
(* ------------------------------------------------------------------ *)
CheckFails == [Name |-> "ci", State |-> <<"f", "a", "i", "l", "u", "r", "e">>, Link |-> "runs/1"]
CheckFailsUpper == [Name |-> "ci", State |-> <<" ", "F", "A", "I", "L", "E", "D">>, Link |-> "runs/1"]
CheckPasses == [Name |-> "lint", State |-> <<"s", "u", "c", "c", "e", "s", "s">>, Link |-> "runs/2"]
CheckSplitA == [Name |-> "a", State |-> <<"e", "r", "r", "o", "r">>, Link |-> "b::c"]
CheckSplitB == [Name |-> "a::b", State |-> <<"e", "r", "r", "o", "r">>, Link |-> "c"]

CheckLists ==
  { <<CheckPasses, CheckFailsUpper, CheckFails>>,
    <<CheckSplitA, CheckSplitB>> }

AllChecks == {CheckFails, CheckFailsUpper, CheckPasses, CheckSplitA, CheckSplitB}

\* a failing check as the claims identify it: work item, check name, check link
CheckIdents == { <<id, c.Name, c.Link>> : id \in IssueIDs, c \in AllChecks }

Views ==
  { [State |-> <<"O", "P", "E", "N">>, MergedAt |-> FALSE],
    [State |-> <<"M", "e", "r", "g", "e", "d">>, MergedAt |-> FALSE],
    [State |-> <<"C", "L", "O", "S", "E", "D">>, MergedAt |-> TRUE] }

CheckAnswers ==
  {[ok |-> FALSE, list |-> <<>>]} \cup { [ok |-> TRUE, list |-> l] : l \in CheckLists }

ViewAnswers ==
  {[ok |-> FALSE, view |-> [State |-> <<>>, MergedAt |-> FALSE]]}
    \cup { [ok |-> TRUE, view |-> v] : v \in Views }

\* What the outside world answers while one link is processed: "gh pr checks",
\* "gh pr view", whether the log of a newly failing check can be fetched, and the
\* position (1..3) of the hook run that fails, 0 if none does.
LinkEnv == [checks : CheckAnswers, view : ViewAnswers, logOK : BOOLEAN, hookFail : 0..3]

\* The answers drawn while the monitor runs: the pull request of TRK-1 is open or
\* merged by its state, that of every other issue is open or merged by mergedAt,
\* so that both ways of being merged occur in every poll of two links. An answer
\* that is never asked for has one value: no hook runs unless the pull request is
\* merged, no log is fetched unless the checks were fetched.
LinkEnvOf(link) ==
  { e \in LinkEnv :
      /\ e.view.ok => IF link.IssueID = "TRK-1" THEN ~e.view.view.MergedAt
                      ELSE e.view.view.State # <<"M", "e", "r", "g", "e", "d">>
      /\ (~e.view.ok \/ ~prMerged(e.view.view)) => e.hookFail = 0
      /\ ~e.checks.ok => e.logOK }

\* faulty variant of Cancelled: the commands of a poll do not see the cancellation
CancelledMut(e) == e

\* With the context cancelled every exec.CommandContext call fails.
Cancelled(e) ==
  [e EXCEPT !.checks = [ok |-> FALSE, list |-> <<>>],
            !.view = [ok |-> FALSE, view |-> [State |-> <<>>, MergedAt |-> FALSE]],
            !.logOK = FALSE]

(* ------------------------------------------------------------------ *)
(* PR monitor: runGHWatchOnce                                          *)
(* ------------------------------------------------------------------ *)
Line(kind, a, b) == [kind |-> kind, a |-> a, b |-> b]

Query(kind, link, repoOverride) ==
  [kind |-> kind, id |-> link.IssueID, pr |-> normalizePRRef(link.PRRef),
   repo |-> repoForLink(link, repoOverride)]

\* the links the poll iterates: Store.ListGitHubLinks(ctx, "")
ListGitHubLinks(rows, repo) ==
  IF repo # "" THEN SelectSeq(rows, LAMBDA l : l.Repo = repo) ELSE rows

\* faulty variant of PollLinks: the repository is used as a filter of the listing
PollLinksMut(rows, repoOverride) == ListGitHubLinks(rows, repoOverride)

PollLinks(rows, repoOverride) == ListGitHubLinks(rows, "")

\* whether a failing check with this key is reported: it has not been seen
Unseen(seen, key) == key \notin seen

\* the seen-failure set after a check with this key was reported
\* faulty variant of Remember: the key is not recorded
RememberMut(seen, key) == seen

Remember(seen, key) == seen \cup {key}

\* parseRunAndJobFromCheckLink: whether the link of a check names a workflow run
parseRunAndJobFromCheckLink(link) == link \in {"runs/1", "runs/2"}

\* faulty variant of fetchFailureCheckLog: every link is taken for a workflow run
fetchFailureCheckLogMut(check, runViewOK) == runViewOK

\* fetchFailureCheckLog succeeds when the link names a workflow run and
\* "gh run view --log" succeeds
fetchFailureCheckLog(check, runViewOK) ==
  parseRunAndJobFromCheckLink(check.Link) /\ runViewOK

\* faulty variant of seenAfterReport: the key is recorded once the log was fetched
seenAfterReportMut(seen, key, logFetched) == IF logFetched THEN seen \cup {key} ELSE seen

\* the seen-failure set after a newly failing check was handled: the key is put
\* into the set before fetchFailureCheckLog is called, whatever that call returns
seenAfterReport(seen, key, logFetched) == Remember(seen, key)

\* the inner loop of a poll over the checks of one link
RECURSIVE reportFailures(_, _, _, _)
reportFailures(st, link, checks, logOK) ==
  IF checks = <<>> THEN st
  ELSE LET c == Head(checks)
           key == FailureKey(link, c)
           logLine == IF fetchFailureCheckLog(c, logOK) THEN Line("log", c.Name, "")
                      ELSE Line("log fetch error", c.Name, "")
       IN IF ~isFailureState(c.State) THEN reportFailures(st, link, Tail(checks), logOK)
          ELSE IF ~Unseen(st.seen, key)
          THEN reportFailures([st EXCEPT !.skipped = Append(@, <<link.IssueID, c.Name, c.Link>>)],
                              link, Tail(checks), logOK)
          ELSE reportFailures(
                 [st EXCEPT !.seen = seenAfterReport(@, key, fetchFailureCheckLog(c, logOK)),
                            !.reported[<<link.IssueID, c.Name, c.Link>>] = @ + 1,
                            !.out = @ \o <<Line("failure", c.Name, c.Link), logLine>>],
                 link, Tail(checks), logOK)

\* faulty variant of skipsLink: a link whose issue is already done is left alone
skipsLinkMut(st, link, merged) == ~merged \/ st.issues[link.IssueID] = StatusDone

\* "if !merged { continue }": whether nothing more is done for the link
skipsLink(st, link, merged) == ~merged

\* faulty variant of watchLink: an error of "gh pr checks" ends the poll
watchLinkMut(st, link, repoOverride, e) ==
  LET s1 == [st EXCEPT !.queries = Append(@, Query("checks", link, repoOverride))]
      s2 == reportFailures(s1, link, e.checks.list, e.logOK)
      s3 == [s2 EXCEPT !.queries = Append(@, Query("view", link, repoOverride))]
      s3v == [s3 EXCEPT !.views = Append(@, [id |-> link.IssueID, view |-> e.view.view])]
      u == UpdateIssue(s3v.issues, link.IssueID, StatusDone)
      s4 == [s3v EXCEPT !.issues = u.issues]
      s5 == [s4 EXCEPT !.events = Append(@, [id |-> link.IssueID, event |-> IssueUpdated])]
      s6 == [s5 EXCEPT !.events = Append(@, [id |-> link.IssueID, event |-> IssueStatusChange])]
      s7 == [s6 EXCEPT !.events = Append(@, [id |-> link.IssueID, event |-> IssueCompleted])]
      s8 == [s7 EXCEPT !.out = Append(@, Line("updated", link.IssueID, ""))]
  IN IF ~e.checks.ok
     THEN [s1 EXCEPT !.out = Append(@, Line("checks error", link.IssueID, "")), !.err = TRUE]
     ELSE IF ~e.view.ok THEN [s3 EXCEPT !.err = TRUE]
     ELSE IF ~prMerged(e.view.view) THEN s3v
     ELSE IF u.err THEN [s3v EXCEPT !.err = TRUE]
     ELSE IF e.hookFail = 1 THEN [s5 EXCEPT !.err = TRUE]
     ELSE IF e.hookFail = 2 THEN [s6 EXCEPT !.err = TRUE]
     ELSE IF e.hookFail = 3 THEN [s7 EXCEPT !.err = TRUE]
     ELSE s8

\* one iteration of the loop over the links; err says the poll returns an error
watchLink(st, link, repoOverride, e) ==
  LET s1 == [st EXCEPT !.queries = Append(@, Query("checks", link, repoOverride))]
      s2 == IF e.checks.ok THEN reportFailures(s1, link, e.checks.list, e.logOK)
            ELSE [s1 EXCEPT !.out = Append(@, Line("checks error", link.IssueID, ""))]
      s3 == [s2 EXCEPT !.queries = Append(@, Query("view", link, repoOverride))]
      s3v == [s3 EXCEPT !.views = Append(@, [id |-> link.IssueID, view |-> e.view.view])]
      u == UpdateIssue(s3v.issues, link.IssueID, StatusDone)
      s4 == [s3v EXCEPT !.issues = u.issues]
      s5 == [s4 EXCEPT !.events = Append(@, [id |-> link.IssueID, event |-> IssueUpdated])]
      s6 == [s5 EXCEPT !.events = Append(@, [id |-> link.IssueID, event |-> IssueStatusChange])]
      s7 == [s6 EXCEPT !.events = Append(@, [id |-> link.IssueID, event |-> IssueCompleted])]
      s8 == [s7 EXCEPT !.out = Append(@, Line("updated", link.IssueID, ""))]
  IN IF ~e.view.ok THEN [s3 EXCEPT !.err = TRUE]
     ELSE IF skipsLink(s3v, link, prMerged(e.view.view)) THEN s3v
     ELSE IF u.err THEN [s3v EXCEPT !.err = TRUE]
     ELSE IF e.hookFail = 1 THEN [s5 EXCEPT !.err = TRUE]
     ELSE IF e.hookFail = 2 THEN [s6 EXCEPT !.err = TRUE]
     ELSE IF e.hookFail = 3 THEN [s7 EXCEPT !.err = TRUE]
     ELSE s8

(* ------------------------------------------------------------------ *)
(* PR monitor: the watch command                                       *)
(* ------------------------------------------------------------------ *)
LinkA == [IssueID |-> "TRK-1", PRRef |-> <<"1", "2">>, Repo |-> ""]
LinkB == [IssueID |-> "TRK-2", PRRef |-> <<"o", "/", "b", "#", "7">>, Repo |-> "o/b"]
\* no call of runGHWatchOnce is in progress
NoPoll ==
  [i |-> 1, done |-> TRUE, err |-> FALSE, queries |-> <<>>, out |-> <<>>, events |-> <<>>,
   views |-> <<>>, skipped |-> <<>>, before |-> <<>>, interrupted |-> FALSE]

\* runGHWatchOnce is entered: the store is opened and the links are listed. With the
\* context cancelled the store cannot be opened and the call returns that error.
BeginPoll(cancelled) ==
  [i |-> 1, done |-> cancelled \/ Len(PollLinks(links, repoFlag)) = 0, err |-> cancelled,
   queries |-> <<>>, out |-> <<>>, events |-> <<>>, views |-> <<>>, skipped |-> <<>>,
   before |-> issues, interrupted |-> FALSE]

\* what newGHWatchCmd does with the error of a call of runGHWatchOnce
\* faulty variant of afterPoll: the error of every poll is returned
afterPollMut(m, pollErr) ==
  IF pollErr
  THEN [m EXCEPT !.pc = "returned", !.result = "err", !.first = FALSE]
  ELSE [m EXCEPT !.pc = "waiting", !.first = FALSE]

afterPoll(m, pollErr) ==
  IF m.first
  THEN (IF pollErr
        THEN [m EXCEPT !.pc = "returned", !.result = "err", !.first = FALSE]
        ELSE [m EXCEPT !.pc = "waiting", !.first = FALSE])
  ELSE [m EXCEPT !.pc = "waiting", !.logged = IF pollErr THEN @ + 1 ELSE @]

\* faulty variant of pollEnds: an error in one link does not end the loop
pollEndsMut(err, i, n) == i = n

\* whether the loop over the links is left after link i of n: at "return err" or
\* after the last link
pollEnds(err, i, n) == err \/ i = n

\* faulty variant of selectReady: a tick is taken while a poll is in progress
selectReadyMut(m) == m.pc \in {"waiting", "polling"}

\* the loop is in its select: the previous call of runGHWatchOnce has returned
selectReady(m) == m.pc = "waiting"

\* "track gh watch" starts: an empty seen-failure set and the immediate first poll.
WatchStart ==
  /\ mon.pc = "idle"
  /\ mon' = [mon EXCEPT !.pc = "polling", !.first = TRUE, !.polls = 1, !.active = 1]
  /\ poll' = BeginPoll(FALSE)
  /\ UNCHANGED <<links, repoFlag, seenFailures, reported>>
  /\ UNCHANGED dispatchVars
  /\ UNCHANGED calc

\* time.NewTicker, created after the first poll, puts a tick into its channel of
\* capacity one, whether the loop is in its select or in a call of runGHWatchOnce.
TickerFires ==
  /\ mon.pc \in {"waiting", "polling"}
  /\ ~mon.first
  /\ ~mon.tick
  /\ mon' = [mon EXCEPT !.tick = TRUE]
  /\ UNCHANGED <<links, repoFlag, seenFailures, reported, poll>>
  /\ UNCHANGED dispatchVars
  /\ UNCHANGED calc

\* The select takes the tick of the ticker's channel: the next poll starts (as long
\* as fewer than MaxPolls polls have returned).
Tick ==
  /\ selectReady(mon)
  /\ mon.tick
  /\ mon.polls - mon.active < MaxPolls
  /\ mon' = [mon EXCEPT !.pc = "polling", !.polls = @ + 1, !.tick = FALSE,
                        !.active = @ + 1]
  /\ poll' = BeginPoll(mon.cancelled)
  /\ UNCHANGED <<links, repoFlag, seenFailures, reported>>
  /\ UNCHANGED dispatchVars
  /\ UNCHANGED calc

\* One iteration of the poll's loop over the links.
PollLink ==
  /\ mon.pc = "polling"
  /\ ~poll.done
  /\ \E e \in LinkEnvOf(PollLinks(links, repoFlag)[poll.i]) :
       LET ls == PollLinks(links, repoFlag)
           st == [issues |-> issues, seen |-> seenFailures, reported |-> reported,
                  queries |-> poll.queries, out |-> poll.out, events |-> poll.events,
                  views |-> poll.views, skipped |-> poll.skipped, err |-> FALSE]
           n == watchLink(st, ls[poll.i], repoFlag, IF mon.cancelled THEN Cancelled(e) ELSE e)
       IN /\ issues' = n.issues
          /\ seenFailures' = n.seen
          /\ reported' = n.reported
          /\ poll' = [poll EXCEPT !.i = @ + 1, !.done = pollEnds(n.err, poll.i, Len(ls)),
                                  !.interrupted = mon.cancelled,
                                  !.err = n.err, !.queries = n.queries, !.out = n.out,
                                  !.events = n.events, !.views = n.views,
                                  !.skipped = n.skipped]
  /\ UNCHANGED <<links, repoFlag, mon>>
  /\ UNCHANGED <<statuses, worktree, branchExists, openPRs, opts, run, issued, events, runs>>
  /\ UNCHANGED calc

\* runGHWatchOnce returns to the watch command: an error of the first poll is
\* returned by the command, an error of a later poll is written as a "watch error"
\* line and the loop goes back to its select.
PollReturn ==
  /\ mon.pc = "polling"
  /\ poll.done
  /\ mon' = [afterPoll(mon, poll.err) EXCEPT !.active = @ - 1]
  /\ poll' = NoPoll
  /\ UNCHANGED <<links, repoFlag, seenFailures, reported>>
  /\ UNCHANGED dispatchVars
  /\ UNCHANGED calc

\* The command's context is cancelled (the process is interrupted).
CancelContext ==
  /\ mon.pc \in {"polling", "waiting"}
  /\ ~mon.cancelled
  /\ mon' = [mon EXCEPT !.cancelled = TRUE]
  /\ UNCHANGED <<links, repoFlag, seenFailures, reported, poll>>
  /\ UNCHANGED dispatchVars
  /\ UNCHANGED calc

\* The select takes the ctx.Done case: the command returns nil.
WatchReturn ==
  /\ mon.pc = "waiting"
  /\ mon.cancelled
  /\ mon' = [mon EXCEPT !.pc = "returned", !.result = "nil"]
  /\ UNCHANGED <<links, repoFlag, seenFailures, reported, poll>>
  /\ UNCHANGED dispatchVars
  /\ UNCHANGED calc

DispatchIdle ==
  /\ statuses = {}
  /\ worktree = "absent"
  /\ branchExists = FALSE
  /\ openPRs = <<>>
  /\ opts = [NoMerge |-> FALSE, MergeMethod |-> "merge"]
  /\ run = IdleRun
  /\ issued = <<>>
  /\ events = <<>>
  /\ runs = 0

MonitorInit ==
  /\ DispatchIdle
  /\ issues \in { [i \in IssueIDs |-> StatusTodo],
                  [i \in IssueIDs |-> IF i = "TRK-1" THEN StatusDone ELSE NoIssue] }
  /\ links = <<LinkA, LinkB>>
  /\ repoFlag \in {"", "o/b"}
  /\ seenFailures = {}
  /\ reported = [t \in CheckIdents |-> 0]
  /\ mon = [pc |-> "idle", result |-> "", first |-> FALSE, polls |-> 0, logged |-> 0,
            cancelled |-> FALSE, tick |-> FALSE, active |-> 0]
  /\ poll = NoPoll
  /\ PureIdle

MonitorNext ==
  WatchStart \/ TickerFires \/ Tick \/ PollLink \/ PollReturn \/ CancelContext \/ WatchReturn

MonitorSpec == MonitorInit /\ [][MonitorNext]_vars

(* ------------------------------------------------------------------ *)
(* Pure functions: issueSlug, normalizePRRef, summarizeChecks called   *)
(* on arguments drawn from bounded sets                                *)
(* ------------------------------------------------------------------ *)
MaxSlugLen == 3
MaxRefLen == 3
MaxChecks == 2

SeqsUpTo(A, n) == UNION { [1..k -> A] : k \in 0..n }

SlugAlphabet == {"A", "b", "1", "-", " ", "/", ".", "é"}

SlugInputs ==
  SeqsUpTo(SlugAlphabet, MaxSlugLen)
    \cup { <<"T", "R", "K", "-", "1">>,
           <<" ", "F", "i", "x", " ", "B", "u", "g", " ", "#", "1", "2", " ">>,
           <<"-", "-", "a", "_", "_", "b", "-", "-">>,
           <<"I", "s", "s", "u", "e">> }

RefAlphabet == {"1", "2", "a", "#", " ", "\n"}

RefPlain == <<"1", "2", "3">>

RefURL ==
  <<" ", "h", "t", "t", "p", "s", ":", "/", "/", "g", "i", "t", "h", "u", "b", ".", "c",
    "o", "m", "/", "a", "/", "b", "/", "p", "u", "l", "l", "/", "4", "5", "6", " ">>

RefShort == <<"o", "w", "n", "e", "r", "/", "r", "e", "p", "o", "#", "7", "8", "9">>

RefInputs == SeqsUpTo(RefAlphabet, MaxRefLen) \cup {RefPlain, RefURL, RefShort}

CheckStateTexts ==
  { <<"f", "a", "i", "l", "u", "r", "e">>,
    <<"f", "a", "i", "l", "e", "d">>,
    <<"e", "r", "r", "o", "r">>,
    <<"t", "i", "m", "e", "d", "_", "o", "u", "t">>,
    <<"c", "a", "n", "c", "e", "l", "l", "e", "d">>,
    <<"a", "c", "t", "i", "o", "n", "_", "r", "e", "q", "u", "i", "r", "e", "d">>,
    <<"s", "t", "a", "r", "t", "u", "p", "_", "f", "a", "i", "l", "u", "r", "e">>,
    <<"p", "e", "n", "d", "i", "n", "g">>,
    <<"q", "u", "e", "u", "e", "d">>,
    <<"i", "n", "_", "p", "r", "o", "g", "r", "e", "s", "s">>,
    <<"w", "a", "i", "t", "i", "n", "g">>,
    <<"r", "e", "q", "u", "e", "s", "t", "e", "d">>,
    <<"s", "u", "c", "c", "e", "s", "s">>,
    <<"s", "k", "i", "p", "p", "e", "d">>,
    <<"F", "A", "I", "L", "U", "R", "E">>,
    <<"Q", "u", "e", "u", "e", "d">>,
    <<" ", "F", "A", "I", "L", "E", "D">>,
    <<>> }

SummaryInputs ==
  SeqsUpTo({ [Name |-> "c", State |-> st, Link |-> ""] : st \in CheckStateTexts }, MaxChecks)

CalcOf(fn, args) == { [fn |-> fn, arg |-> x, out |-> <<>>, done |-> FALSE] : x \in args }

\* the calls of updateIssueStatus: the new status and the outcome of each hook run
StatusInputs ==
  [status : {StatusInProgress, dispatchFinishedStatus, StatusDone}, hooks : [1..3 -> BOOLEAN]]

\* the iterations of the monitor's loop for one link: what the outside world answers
MergedInputs == LinkEnv

PureInit ==
  /\ DispatchIdle
  /\ issues = [i \in IssueIDs |-> StatusTodo]
  /\ MonitorIdle
  /\ calc \in CalcOf("issueSlug", SlugInputs) \cup CalcOf("normalizePRRef", RefInputs)
                \cup CalcOf("summarizeChecks", SummaryInputs)
                \cup CalcOf("updateIssueStatus", StatusInputs)
                \cup CalcOf("watchLink", MergedInputs)

ApplyIssueSlug ==
  /\ calc.fn = "issueSlug" /\ ~calc.done
  /\ calc' = [calc EXCEPT !.out = issueSlug(calc.arg), !.done = TRUE]
  /\ UNCHANGED dispatchVars
  /\ UNCHANGED monitorVars

ApplyNormalizePRRef ==
  /\ calc.fn = "normalizePRRef" /\ ~calc.done
  /\ calc' = [calc EXCEPT !.out = normalizePRRef(calc.arg), !.done = TRUE]
  /\ UNCHANGED dispatchVars
  /\ UNCHANGED monitorVars

ApplySummarizeChecks ==
  /\ calc.fn = "summarizeChecks" /\ ~calc.done
  /\ calc' = [calc EXCEPT !.out = summarizeChecks(calc.arg), !.done = TRUE]
  /\ UNCHANGED dispatchVars
  /\ UNCHANGED monitorVars

\* one call of updateIssueStatus on the store, for the dispatched issue
ApplyUpdateIssueStatus ==
  /\ calc.fn = "updateIssueStatus" /\ ~calc.done
  /\ LET r == updateIssueStatus(World, DispatchIssue, calc.arg.status, calc.arg.hooks) IN
       /\ issues' = r.s.issues
       /\ events' = r.s.events
       /\ calc' = [calc EXCEPT !.out = [err |-> r.err], !.done = TRUE]
  /\ UNCHANGED <<statuses, worktree, branchExists, openPRs, opts, run, issued, runs>>
  /\ UNCHANGED monitorVars

\* one iteration of the monitor's loop on the store, for the link of TRK-1
ApplyWatchLink ==
  /\ calc.fn = "watchLink" /\ ~calc.done
  /\ LET st == [issues |-> issues, seen |-> {}, reported |-> [t \in CheckIdents |-> 0],
                queries |-> <<>>, out |-> <<>>, events |-> <<>>, views |-> <<>>,
                skipped |-> <<>>, err |-> FALSE]
         n == watchLink(st, LinkA, "", calc.arg)
     IN /\ issues' = n.issues
        /\ calc' = [calc EXCEPT !.out = [err |-> n.err, events |-> n.events], !.done = TRUE]
  /\ UNCHANGED <<statuses, worktree, branchExists, openPRs, opts, run, issued, events, runs>>
  /\ UNCHANGED monitorVars

PureNext ==
  \/ ApplyIssueSlug
  \/ ApplyNormalizePRRef
  \/ ApplySummarizeChecks
  \/ ApplyUpdateIssueStatus
  \/ ApplyWatchLink

PureSpec == PureInit /\ [][PureNext]_vars


(* ------------------------------------------------------------------ *)
(* Properties of dispatch (Spec)                                       *)
(* ------------------------------------------------------------------ *)

PublishCmds ==
  {"git add", "git commit", "git push", "gh pr list", "gh pr create", "gh pr checks", "gh pr merge"}

PRCmds == {"git push", "gh pr list", "gh pr create", "gh pr checks", "gh pr merge"}

CmdNames(rs) == [i \in 1..Len(rs) |-> rs[i].cmd]

Published == CmdNames(SelectSeq(issued, LAMBDA r : r.cmd \in PublishCmds))

PRSequence == CmdNames(SelectSeq(issued, LAMBDA r : r.cmd \in PRCmds))

WasIssued(cmd) == \E i \in 1..Len(issued) : issued[i].cmd = cmd

AllIssuedOK == \A i \in 1..Len(issued) : issued[i].ok

HooksOK == \A i \in 1..Len(events) : events[i].ok

RunEnded == run.result \in {"nil", "err"}

\* the runner left nothing behind: empty trimmed porcelain status, rev-list count 0
NothingToPublish ==
  /\ run.detected
  /\ TrimSpace(run.statusOut) = NoText
  /\ Atoi(TrimSpace(run.revOut)) = [ok |-> TRUE, val |-> 0]

\* C1: when, after a successful runner, the trimmed porcelain status is empty and
\* the count of commits ahead of the base is 0, dispatch returns nil, has issued no
\* add, commit, push, PR or merge command, and the issue is in_progress.
C1_NoChangesReturnsEarly ==
  NothingToPublish =>
    /\ run.result = "nil"
    /\ run.exit = "no changes"
    /\ Published = <<>>
    /\ issues[DispatchIssue] = StatusInProgress

C1_Witness ==
  /\ NothingToPublish
  /\ run.result = "nil"
  /\ WasIssued("runner")
  /\ issues[DispatchIssue] = StatusInProgress

\* C2: a run with default options in which the worktree is set up, the runner leaves
\* changes, no PR is open, and every command and hook succeeds returns nil, leaves
\* the issue done, and has issued push, pr list, pr create, pr checks, pr merge once
\* each in that order.
C2_FullRunEndsDone ==
  (RunEnded /\ ~opts.NoMerge /\ run.prRef # NoText /\ WasIssued("gh pr create")
     /\ AllIssuedOK /\ HooksOK) =>
    /\ run.result = "nil"
    /\ issues[DispatchIssue] = StatusDone
    /\ PRSequence = <<"git push", "gh pr list", "gh pr create", "gh pr checks", "gh pr merge">>

\* C3: with --no-merge, a run in which every command and hook succeeds returns nil
\* after the CI watch, has issued no merge command, and leaves the issue finished.
C3_NoMergeEndsFinished ==
  (RunEnded /\ opts.NoMerge /\ run.prRef # NoText /\ AllIssuedOK /\ HooksOK) =>
    /\ run.result = "nil"
    /\ WasIssued("gh pr checks")
    /\ ~WasIssued("gh pr merge")
    /\ issues[DispatchIssue] = dispatchFinishedStatus

C5_MarkFinishedSetsFinished ==
  (run.stepIndex >= 7 /\ HooksOK) =>
    issues[DispatchIssue] \in {dispatchFinishedStatus, StatusDone}

\* C6: a merge command is issued only when NoMerge is false and the CI watch
\* succeeded, and the issue is done only after the merge command succeeded.
C6_MergeOnlyAfterGreenWatch ==
  /\ WasIssued("gh pr merge") =>
       /\ ~opts.NoMerge
       /\ \E i \in 1..Len(issued) : issued[i].cmd = "gh pr checks" /\ issued[i].ok
  /\ (run.stepIndex >= 10 /\ issues[DispatchIssue] = StatusDone) =>
       \E i \in 1..Len(issued) : issued[i].cmd = "gh pr merge" /\ issued[i].ok

(* ------------------------------------------------------------------ *)
(* Properties of the PR monitor (MonitorSpec)                          *)
(* ------------------------------------------------------------------ *)

Polling == mon.pc = "polling"

Times(seq, x) == Cardinality({i \in 1..Len(seq) : seq[i] = x})

EventsOf(id) == [i \in 1..Len(SelectSeq(poll.events, LAMBDA ev : ev.id = id)) |->
                   SelectSeq(poll.events, LAMBDA ev : ev.id = id)[i].event]

AllThree == <<IssueUpdated, IssueStatusChange, IssueCompleted>>

IsPrefix(a, b) == Len(a) <= Len(b) /\ a = SubSeq(b, 1, Len(a))

\* the answer of "gh pr view" says merged: mergedAt present or state MERGED in any case
SaysMerged(v) == v.MergedAt \/ ToLower(v.State) = <<"m", "e", "r", "g", "e", "d">>

SeenMerged(id) == \E i \in 1..Len(poll.views) : poll.views[i].id = id /\ SaysMerged(poll.views[i].view)

LinkIDs(rows) == [i \in 1..Len(rows) |-> rows[i].IssueID]

LinkOf(id) == CHOOSE i \in 1..Len(links) : links[i].IssueID = id

\* C7: within one run of the monitor a failing check, identified by issue ID,
\* check name and check link, is reported at most once, however many polls
\* return it as failing.
C7_FailureReportedOnce == \A t \in CheckIdents : reported[t] <= 1

C7_Witness ==
  /\ mon.polls = 2
  /\ reported[<<"TRK-1", "ci", "runs/1">>] = 1
  /\ Times(poll.skipped, <<"TRK-1", "ci", "runs/1">>) = 2

\* C8 (as stated): a poll that fails, the immediate first one or a later one,
\* never terminates the monitor.
C8_FailingPollNeverTerminates == ~(mon.pc = "returned" /\ mon.result = "err")

\* C8 (amended): a failing poll at a later tick is logged as one line and the
\* monitor goes on waiting for the next tick; a failing immediate first poll is
\* not logged and makes the monitor return that error. The monitor returns an
\* error in no other case.
C8_OnlyFirstPollTerminates ==
  /\ [](mon.pc = "returned" => (mon.result = "nil" \/ (mon.polls = 1 /\ mon.logged = 0)))
  /\ [][(Polling /\ mon'.pc # "polling" /\ poll.err) =>
          IF mon.first
          THEN mon'.pc = "returned" /\ mon'.result = "err" /\ mon'.logged = mon.logged
          ELSE mon'.pc = "waiting" /\ mon'.logged = mon.logged + 1]_vars

C8_Witness == mon.pc = "waiting" /\ mon.polls = 2 /\ mon.logged = 1 /\ ~mon.cancelled

\* C9 (as stated): every link observed merged in a poll has its issue set to done
\* and the events issue.updated, issue.status_changed, issue.completed fired in
\* that order; the issue of a link not observed merged keeps its status.
C9_MergedSetsDoneAndFiresAll ==
  Polling =>
    \A id \in IssueIDs :
      IF SeenMerged(id)
      THEN issues[id] = StatusDone /\ EventsOf(id) = AllThree
      ELSE issues[id] = poll.before[id] /\ EventsOf(id) = <<>>

\* C9 (amended): for a link observed merged, whatever its checks, the issue is set
\* to done if its row exists, and the three events are fired in order up to and
\* including the first one whose hook fails, which fails the poll; all three are
\* fired and the update is printed when no hook fails. If the row does not exist
\* the poll fails with no event. The issue of a link not observed merged keeps
\* its status and has no event.
C9_MergedSetsDoneUntilFailure ==
  Polling =>
    \A id \in IssueIDs :
      IF SeenMerged(id)
      THEN IF poll.before[id] = NoIssue
           THEN issues[id] = NoIssue /\ EventsOf(id) = <<>> /\ poll.err
           ELSE /\ issues[id] = StatusDone
                /\ EventsOf(id) # <<>>
                /\ IsPrefix(EventsOf(id), AllThree)
                /\ IF \E i \in 1..Len(poll.out) : poll.out[i] = Line("updated", id, "")
                   THEN EventsOf(id) = AllThree
                   ELSE poll.err
      ELSE issues[id] = poll.before[id] /\ EventsOf(id) = <<>>

C9_Witness ==
  /\ Polling
  /\ SeenMerged("TRK-1")
  /\ poll.before["TRK-1"] = StatusTodo
  /\ issues["TRK-1"] = StatusDone
  /\ EventsOf("TRK-1") = AllThree
  /\ mon.polls = 1
  /\ reported[<<"TRK-1", "ci", "runs/1">>] = 1

C11_PollWritesOnlyLinkedStatus ==
  [][/\ links' = links
     /\ statuses' = statuses
     /\ \A id \in IssueIDs :
          issues'[id] # issues[id] =>
            /\ Polling /\ ~poll.done
            /\ links[poll.i].IssueID = id
            /\ issues'[id] = StatusDone]_vars

C11_Witness ==
  /\ mon.polls = 2
  /\ mon.pc = "waiting"
  /\ links = <<LinkA, LinkB>>
  /\ issues["TRK-1"] = StatusDone
  /\ issues["TRK-2"] = StatusTodo

\* C12: the branch name and the worktree path are the same in every invocation
\* for the work item (codex/<slug> and <root>/.worktree/<slug>); when the worktree
\* path exists as a directory, "prepare worktree" succeeds and issues neither git
\* show-ref nor git worktree add, so a repeated dispatch does not fail on the
\* existing worktree or branch.
C12_ExistingWorktreeReused ==
  /\ run.stat # "" =>
       /\ run.branch = <<"c", "o", "d", "e", "x", "/", "t", "r", "k", "-", "1">>
       /\ run.worktreeDir = <<"/", "r", "/", ".", "w", "o", "r", "k", "t", "r", "e", "e", "/",
                              "t", "r", "k", "-", "1">>
  /\ run.stat = "dir" =>
       /\ run.failedStep # 2
       /\ ~WasIssued("git show-ref")
       /\ ~WasIssued("git worktree add")
       /\ ~WasIssued("git worktree add -b")
  /\ (run.stepIndex >= 2 /\ run.branch # NoText /\ worktree = "dir"
        /\ ~WasIssued("git worktree add") /\ ~WasIssued("git worktree add -b")) =>
       run.stat = "dir"

C12_Witness ==
  /\ runs = 2
  /\ branchExists
  /\ run.stat = "dir"
  /\ run.pc = 3
  /\ run.result = "running"

\* C13: every status transition of a dispatch fires issue.updated and then
\* issue.status_changed, and issue.completed after them only when the issue was
\* set to done; a failing hook run is the last thing the run does: the step it
\* belongs to fails, the run ends with that step's error, and no later hook, command
\* or step follows.
C13_TransitionsFireHooks ==
  /\ [](/\ \A i \in 1..Len(events) :
             /\ events[i].event = IssueUpdated =>
                  /\ i = 1 \/ events[i - 1].event \in {IssueStatusChange, IssueCompleted}
                  /\ events[i].ok => i < Len(events) /\ events[i + 1].event = IssueStatusChange
             /\ events[i].event = IssueStatusChange =>
                  i > 1 /\ events[i - 1].event = IssueUpdated
             /\ events[i].event = IssueCompleted =>
                  /\ i > 1 /\ events[i - 1].event = IssueStatusChange
                  /\ issues[DispatchIssue] = StatusDone
             /\ ~events[i].ok =>
                  /\ i = Len(events)
                  /\ run.result = "err"
                  /\ run.failedStep = run.stepIndex
        /\ (run.stepIndex >= 1 /\ issues[DispatchIssue] # NoIssue) =>
             /\ issues[DispatchIssue] \in {StatusInProgress, dispatchFinishedStatus, StatusDone}
             /\ events # <<>>
             /\ events[1].event = IssueUpdated
        /\ (run.stepIndex = 10 /\ issues[DispatchIssue] = StatusDone /\ HooksOK) =>
             events[Len(events)].event = IssueCompleted)
  /\ [][(\E i \in 1..Len(events) : ~events[i].ok) =>
          \/ run'.stepIndex = 0
          \/ (run' = run /\ issued' = issued /\ events' = events /\ issues' = issues)]_vars

C13_Witness ==
  /\ events = <<[event |-> IssueUpdated, ok |-> TRUE], [event |-> IssueStatusChange, ok |-> FALSE]>>
  /\ issues[DispatchIssue] = StatusInProgress
  /\ run.result = "err"
  /\ run.failedStep = 1
  /\ issued = <<>>

(* ------------------------------------------------------------------ *)
(* Further properties of dispatch (Spec)                               *)
(* ------------------------------------------------------------------ *)

CountCmd(cmd) == Cardinality({i \in 1..Len(issued) : issued[i].cmd = cmd})

FirstCmd(cmd) == CHOOSE i \in 1..Len(issued) : issued[i].cmd = cmd

CmdOK(cmd) == \E i \in 1..Len(issued) : issued[i].cmd = cmd /\ issued[i].ok

FlagOf(method) ==
  CASE method = "merge" -> "--merge"
    [] method = "squash" -> "--squash"
    [] method = "rebase" -> "--rebase"

\* C17: in a run with merging enabled whose commands and hooks all succeed, the
\* merge step has issued exactly one gh pr merge <pr> <flag> --delete-branch, where
\* <flag> is --merge, --squash or --rebase as the configured method is merge, squash
\* or rebase and <pr> is the reference resolved in step 6.
C17_MergeCommandIssued ==
  (RunEnded /\ ~opts.NoMerge /\ run.prRef # NoText /\ AllIssuedOK /\ HooksOK) =>
    /\ CountCmd("gh pr merge") = 1
    /\ issued[FirstCmd("gh pr merge")].pr = run.prRef
    /\ issued[FirstCmd("gh pr merge")].flag = FlagOf(opts.MergeMethod)

ExpectedSteps ==
  <<"prepare issue status", "prepare worktree", "run implementation runner",
    "detect changes", "commit and push", "create or reuse PR", "mark issue finished",
    "watch CI checks", "merge PR", "mark issue done">>

\* C18: the steps of a dispatch are executed in the order 1 prepare issue status,
\* 2 prepare worktree, 3 run implementation runner, 4 detect changes, 5 commit and
\* push, 6 create or reuse PR, 7 mark issue finished, 8 watch CI checks, 9 merge PR,
\* 10 mark issue done, each announced with its index; the first failing step is
\* reported with its name and index, the run returns the error, and no later step
\* and no further command is executed.
C18_StepsInOrderFirstFailureEnds ==
  /\ [](/\ Len(run.printed) = run.stepIndex
        /\ \A i \in 1..Len(run.printed) : run.printed[i] = <<i, ExpectedSteps[i]>>
        /\ run.result = "err" =>
             /\ run.failedStep = run.stepIndex
             /\ run.failedStep >= 1
             /\ run.failedName = ExpectedSteps[run.failedStep]
        /\ run.result # "err" => run.failedStep = 0)
  /\ [][run.result = "err" =>
          \/ run'.stepIndex = 0
          \/ (run' = run /\ issued' = issued /\ events' = events /\ issues' = issues)]_vars

C18_Witness ==
  /\ run.result = "err"
  /\ run.failedStep = 6
  /\ run.failedName = "create or reuse PR"
  /\ Len(run.printed) = 6
  /\ issued[Len(issued)].cmd = "gh pr create"
  /\ ~issued[Len(issued)].ok

\* C19: in "prepare worktree", when the worktree path does not exist, git show-ref
\* is issued once and then exactly one git worktree add: "worktree add <dir>
\* <branch>" if show-ref succeeded and "worktree add -b <branch> <dir> <base>"
\* otherwise; when the path exists and is not a directory the step fails and
\* neither show-ref nor worktree add is issued.
C19_WorktreeAddFollowsShowRef ==
  /\ run.stat = "absent" =>
       /\ CountCmd("git show-ref") = 1
       /\ CountCmd("git worktree add") + CountCmd("git worktree add -b") = 1
       /\ CountCmd("git worktree add") = (IF CmdOK("git show-ref") THEN 1 ELSE 0)
       /\ \A i \in 1..Len(issued) :
            issued[i].cmd \in {"git worktree add", "git worktree add -b"} =>
              FirstCmd("git show-ref") = i - 1
  /\ run.stat = "file" =>
       /\ run.result = "err"
       /\ run.failedStep = 2
       /\ CountCmd("git show-ref") = 0
       /\ CountCmd("git worktree add") + CountCmd("git worktree add -b") = 0

C19_Witness ==
  /\ run.stat = "absent"
  /\ CmdOK("git show-ref")
  /\ CmdOK("git worktree add")
  /\ run.pc = 3

\* C20: in "commit and push", git add -A is issued exactly when step 4 found
\* uncommitted changes, git commit once after it (unless add failed), both before
\* the push; git push is issued once in every run that reaches step 5, except that
\* no push is issued when add or commit failed; none of the three is issued before
\* step 5.
C20_CommitOnlyWhenDirty ==
  LET dirty == TrimSpace(run.statusOut) # NoText IN
  IF run.stepIndex >= 5
  THEN /\ CountCmd("git add") = (IF dirty THEN 1 ELSE 0)
       /\ CountCmd("git commit") = (IF dirty /\ CmdOK("git add") THEN 1 ELSE 0)
       /\ CountCmd("git push") =
            (IF ~dirty \/ (CmdOK("git add") /\ CmdOK("git commit")) THEN 1 ELSE 0)
       /\ CountCmd("git commit") = 1 => FirstCmd("git commit") = FirstCmd("git add") + 1
       /\ (dirty /\ CountCmd("git push") = 1) =>
            FirstCmd("git push") = FirstCmd("git commit") + 1
  ELSE CountCmd("git add") + CountCmd("git commit") + CountCmd("git push") = 0

C20_Witness ==
  /\ run.stepIndex >= 5
  /\ TrimSpace(run.statusOut) # NoText
  /\ CmdOK("git add") /\ CmdOK("git commit") /\ CmdOK("git push")
  /\ FirstCmd("git push") = FirstCmd("git add") + 2


(* ------------------------------------------------------------------ *)
(* Properties of the pure functions (PureSpec)                         *)
(* ------------------------------------------------------------------ *)

Called(fn) == calc.fn = fn /\ calc.done

DecimalDigits == {"0", "1", "2", "3", "4", "5", "6", "7", "8", "9"}

\* the characters of [a-z0-9._-] other than '-'
SlugLetters ==
  {"a", "b", "c", "d", "e", "f", "g", "h", "i", "j", "k", "l", "m",
   "n", "o", "p", "q", "r", "s", "t", "u", "v", "w", "x", "y", "z"}
    \cup DecimalDigits \cup {".", "_"}

\* the characters of the lower-cased, trimmed identifier that a slug keeps as they are
Surviving(id) == SelectSeq(ToLower(TrimSpace(id)), LAMBDA c : c \in SlugLetters)

C15_TrailingDigitsOrTrimmed ==
  Called("normalizePRRef") =>
    LET trimmed == TrimSpace(calc.arg)
        out == calc.out
        n == Len(trimmed)
        k == Len(out)
    IN /\ IF n > 0 /\ trimmed[n] \in DecimalDigits
          THEN /\ k > 0 /\ k <= n
               /\ out = SubSeq(trimmed, n - k + 1, n)
               /\ \A i \in 1..k : out[i] \in DecimalDigits
               /\ k < n => trimmed[n - k] \notin DecimalDigits
          ELSE out = trimmed
       /\ normalizePRRef(out) = out
       /\ calc.arg = RefPlain => out = <<"1", "2", "3">>
       /\ calc.arg = RefURL => out = <<"4", "5", "6">>
       /\ calc.arg = RefShort => out = <<"7", "8", "9">>

C15_Witness ==
  /\ Called("normalizePRRef")
  /\ calc.arg = RefURL
  /\ calc.out = <<"4", "5", "6">>

FailureNames ==
  { <<"f", "a", "i", "l", "u", "r", "e">>,
    <<"f", "a", "i", "l", "e", "d">>,
    <<"e", "r", "r", "o", "r">>,
    <<"t", "i", "m", "e", "d", "_", "o", "u", "t">>,
    <<"c", "a", "n", "c", "e", "l", "l", "e", "d">>,
    <<"a", "c", "t", "i", "o", "n", "_", "r", "e", "q", "u", "i", "r", "e", "d">>,
    <<"s", "t", "a", "r", "t", "u", "p", "_", "f", "a", "i", "l", "u", "r", "e">> }

PendingNames ==
  { <<"p", "e", "n", "d", "i", "n", "g">>,
    <<"q", "u", "e", "u", "e", "d">>,
    <<"i", "n", "_", "p", "r", "o", "g", "r", "e", "s", "s">>,
    <<"w", "a", "i", "t", "i", "n", "g">>,
    <<"r", "e", "q", "u", "e", "s", "t", "e", "d">> }

\* a check state as it is compared: case and surrounding white space are ignored
Folded(state) == ToLower(TrimSpace(state))

C21_CreateIffNoOpenPR ==
  /\ WasIssued("gh pr list") <=> run.listing.state # ""
  /\ WasIssued("gh pr create") <=> run.listing = Listing("decoded", <<>>)
  /\ CountCmd("gh pr create") <= 1
  /\ (run.listing.state = "decoded" /\ run.listing.prs # <<>>) =>
       /\ Atoi(run.prRef) = [ok |-> TRUE, val |-> run.listing.prs[1]]
       /\ run.failedStep # 6
  /\ (CmdOK("gh pr create") /\ TrimSpace(run.createOut) = NoText) =>
       /\ run.result = "err"
       /\ run.failedStep = 6
       /\ run.stepIndex = 6
       /\ issues[DispatchIssue] = StatusInProgress

\* two pull requests are open for the branch: the first is reused, none is created
C21_Witness ==
  /\ run.listing = Listing("decoded", <<9, 7>>)
  /\ run.prRef = <<"9">>
  /\ run.pc = 7
  /\ ~WasIssued("gh pr create")

\* the lines of the poll in progress that say "gh pr checks" failed for this issue
ChecksErrorFor(id) ==
  \E i \in 1..Len(poll.out) : poll.out[i] = Line("checks error", id, "")

Viewed(id) == \E i \in 1..Len(poll.views) : poll.views[i].id = id

QueriedAt(j, kind, id) ==
  j \in 1..Len(poll.queries) /\ poll.queries[j].kind = kind /\ poll.queries[j].id = id

\* C22: in every poll, each "gh pr checks" query of a link, failed or not, is
\* followed at once by the "gh pr view" query of the same link; a failure of
\* "gh pr checks" is written as a line and never is the error of the poll (a poll
\* that returns an error does so for a link whose view failed or said merged); and
\* a poll that ends without error has made both queries for every link, in order,
\* whichever checks queries failed.
C22_ChecksErrorDoesNotAbort ==
  Polling =>
    /\ \A j \in 1..Len(poll.queries) :
         poll.queries[j].kind = "checks" => QueriedAt(j + 1, "view", poll.queries[j].id)
    /\ \A id \in IssueIDs :
         ChecksErrorFor(id) => \E j \in 1..Len(poll.queries) : QueriedAt(j, "checks", id)
    /\ (poll.err /\ poll.queries # <<>>) =>
         LET id == poll.queries[Len(poll.queries)].id IN ~Viewed(id) \/ SeenMerged(id)
    /\ (poll.done /\ ~poll.err) =>
         \A k \in 1..Len(links) :
           /\ QueriedAt(2 * k - 1, "checks", links[k].IssueID)
           /\ QueriedAt(2 * k, "view", links[k].IssueID)

\* the checks of the first link could not be fetched; its pull request was still
\* seen merged and its issue set to done, and the second link was processed too
C22_Witness ==
  /\ Polling /\ poll.done /\ ~poll.err /\ ~mon.cancelled
  /\ ChecksErrorFor("TRK-1")
  /\ SeenMerged("TRK-1")
  /\ poll.before["TRK-1"] = StatusTodo
  /\ issues["TRK-1"] = StatusDone
  /\ Viewed("TRK-2")

\* C23: a poll in which a merge-status fetch, a status update or a hook has failed
\* has ended: from then on, until it returns, no query is made, no status is
\* written, no event is fired and no failure is recorded; all its queries are for
\* the links up to the failing one, so no later link is touched in that poll.
C23_LinkErrorEndsPoll ==
  /\ [](Polling /\ poll.err => poll.done)
  /\ [](Polling /\ poll.err =>
          \A j \in 1..Len(poll.queries) :
            \E k \in 1..(poll.i - 1) : links[k].IssueID = poll.queries[j].id)
  /\ [](Polling /\ poll.err /\ poll.queries # <<>> =>
          /\ Len(poll.queries) = 2 * (poll.i - 1)
          /\ \A k \in poll.i..Len(links) :
               /\ issues[links[k].IssueID] = poll.before[links[k].IssueID]
               /\ EventsOf(links[k].IssueID) = <<>>)
  /\ [][(Polling /\ poll.err) =>
          /\ issues' = issues
          /\ seenFailures' = seenFailures
          /\ reported' = reported
          /\ (mon'.pc = "polling" => poll' = poll)]_vars

\* the poll failed at the first of two links (its view could not be fetched, its
\* update failed or a hook failed) while the context was live: the second link
\* was never queried
C23_Witness ==
  /\ Polling /\ poll.err /\ ~mon.cancelled
  /\ Len(links) = 2
  /\ poll.i = 2
  /\ Len(poll.queries) = 2
  /\ SeenMerged("TRK-1")
  /\ EventsOf("TRK-1") = <<IssueUpdated, IssueStatusChange>>
  /\ poll.before["TRK-2"] = StatusTodo
  /\ issues["TRK-2"] = StatusTodo

\* C24: at most one call of runGHWatchOnce is in progress at any time, and it is
\* in progress exactly while the command is not in its select; a poll starts only
\* when no call is in progress, and a tick that the ticker delivers while a poll
\* is in progress starts nothing and leaves that poll as it is.
C24_OnePollAtATime ==
  /\ [](mon.active <= 1 /\ (mon.active = 1 <=> Polling))
  /\ [][mon'.polls = mon.polls + 1 =>
          /\ mon.active = 0
          /\ mon.pc \in {"idle", "waiting"}
          /\ poll = NoPoll]_vars
  /\ [][(Polling /\ ~mon.tick /\ mon'.tick) =>
          /\ mon'.pc = "polling"
          /\ mon'.polls = mon.polls
          /\ mon'.active = 1
          /\ poll' = poll]_vars

\* the second poll has inspected its first link and is still in progress when the
\* ticker delivers its next tick
C24_Witness ==
  /\ Polling
  /\ mon.polls = 2
  /\ mon.tick
  /\ ~poll.done
  /\ Len(poll.queries) = 2
  /\ mon.active = 1

KeyOf(t) == t[1] \o "::" \o t[2] \o "::" \o t[3]

LogKinds == {"log", "log fetch error"}

CountKind(out, kinds) == Cardinality({j \in 1..Len(out) : out[j].kind \in kinds})

\* C28: the seen-failure set only grows; the key of every failing check that was
\* reported is in the set, whether its log could be fetched or not, so that each
\* failing check is reported at most once over all polls; a log is fetched only
\* right after the report of a newly seen failing check, once per report, and a
\* check whose link names no workflow run gets a log fetch error.
C28_SeenSetOnlyGrows ==
  /\ [][seenFailures \subseteq seenFailures']_vars
  /\ [](\A t \in CheckIdents :
          /\ reported[t] <= 1
          /\ (reported[t] = 1 => KeyOf(t) \in seenFailures))
  /\ [](Polling =>
          \A j \in 1..Len(poll.out) :
            /\ poll.out[j].kind \in LogKinds =>
                 j > 1 /\ poll.out[j - 1].kind = "failure" /\ poll.out[j - 1].a = poll.out[j].a
            /\ poll.out[j].kind = "failure" =>
                 /\ j < Len(poll.out)
                 /\ poll.out[j + 1].kind \in LogKinds
                 /\ (poll.out[j].b \in {"b::c", "c"} => poll.out[j + 1].kind = "log fetch error"))
  /\ [][(Polling /\ mon'.pc = "polling" /\ mon'.polls = mon.polls) =>
          /\ \A t \in CheckIdents : reported'[t] \in {reported[t], reported[t] + 1}
          /\ CountKind(poll'.out, {"failure"}) - CountKind(poll.out, {"failure"})
               = Cardinality({t \in CheckIdents : reported'[t] # reported[t]})
          /\ CountKind(poll'.out, LogKinds) = CountKind(poll'.out, {"failure"})]_vars

\* the first poll reported the failing check "a" of TRK-1, whose link names no
\* workflow run, so its log fetch failed; the second poll gets the same checks
\* again, skips both (they share one key), reports nothing and fetches no log
C28_Witness ==
  /\ Polling
  /\ mon.polls = 2
  /\ reported[<<"TRK-1", "a", "b::c">>] = 1
  /\ KeyOf(<<"TRK-1", "a", "b::c">>) \in seenFailures
  /\ poll.skipped = << <<"TRK-1", "a", "b::c">>, <<"TRK-1", "a::b", "c">> >>
  /\ CountKind(poll.out, {"failure"} \cup LogKinds) = 0

UpdatedLineFor(id) == \E i \in 1..Len(poll.out) : poll.out[i] = Line("updated", id, "")

\* C29: a poll that sees the pull request of a link merged treats an issue that
\* is already done like any other: it writes done again and fires issue.updated,
\* issue.status_changed and issue.completed again, in that order (up to the first
\* hook that fails, which ends the poll), and prints the update line; and whatever
\* the stored status of an existing issue is when its link is seen merged, the
\* step writes done and fires issue.updated.
C29_MergedRewritesDoneEveryPoll ==
  /\ [](Polling =>
          \A id \in IssueIDs :
            (SeenMerged(id) /\ poll.before[id] = StatusDone) =>
              /\ issues[id] = StatusDone
              /\ EventsOf(id) # <<>>
              /\ IsPrefix(EventsOf(id), AllThree)
              /\ (UpdatedLineFor(id) => EventsOf(id) = AllThree)
              /\ (~poll.err => UpdatedLineFor(id)))
  /\ [][(Polling /\ ~poll.done /\ mon'.pc = "polling"
          /\ Len(poll'.views) = Len(poll.views) + 1
          /\ SaysMerged(poll'.views[Len(poll'.views)].view)
          /\ issues[links[poll.i].IssueID] # NoIssue) =>
            /\ issues'[links[poll.i].IssueID] = StatusDone
            /\ Len(poll'.events) > Len(poll.events)
            /\ poll'.events[Len(poll.events) + 1] =
                 [id |-> links[poll.i].IssueID, event |-> IssueUpdated]]_vars

\* the first poll set TRK-2 to done; the second poll sees its pull request merged
\* again, writes done again and fires the three events again
C29_Witness ==
  /\ Polling
  /\ mon.polls = 2
  /\ poll.before["TRK-2"] = StatusDone
  /\ SeenMerged("TRK-2")
  /\ issues["TRK-2"] = StatusDone
  /\ EventsOf("TRK-2") = AllThree
  /\ UpdatedLineFor("TRK-2")

\* C26: within one run no external command is issued twice; and a second run for
\* the same issue that finds the worktree directory and an open pull request of
\* the branch, and in which every command and hook succeeds, issues no git
\* worktree add and no gh pr create, takes the number of the open pull request as
\* its reference and reaches the CI watch step (gh pr checks is issued).
C26_RerunResumesAtCIWatch ==
  /\ \A i, j \in 1..Len(issued) : issued[i].cmd = issued[j].cmd => i = j
  /\ (runs = 2 /\ RunEnded /\ run.stat = "dir"
        /\ run.listing.state = "decoded" /\ run.listing.prs # <<>>
        /\ AllIssuedOK /\ HooksOK) =>
       /\ ~WasIssued("git worktree add")
       /\ ~WasIssued("git worktree add -b")
       /\ ~WasIssued("gh pr create")
       /\ Atoi(run.prRef) = [ok |-> TRUE, val |-> run.listing.prs[1]]
       /\ WasIssued("gh pr checks")

\* the number of hook events of a run whose step 1 fired both of its events
StepOneEvents == 2

\* the number of hook events of a run up to and including a complete step 7
StepSevenEvents == 4

\* C27: when a run has returned, the stored status of its issue follows from how
\* far the run got, whatever the status was before: the status before the run if
\* step 1 failed before its update (no event was fired); in_progress if the run
\* took the no-change exit, failed in steps 1 to 6, or failed in step 7 at the
\* finished update; finished if it failed in step 7 after the update, in step 8
\* or 9, took the no-merge exit, or failed in step 10 at the done update; done
\* otherwise. (In this model every run ends in step 7 at the latest.)
C27_StatusFollowsProgress ==
  RunEnded =>
    issues[DispatchIssue] =
      IF run.failedStep = 1 /\ events = <<>> THEN run.before
      ELSE IF \/ run.exit = "no changes"
              \/ run.failedStep \in 1..6
              \/ (run.failedStep = 7 /\ Len(events) = StepOneEvents)
      THEN StatusInProgress
      ELSE IF \/ run.failedStep \in 7..9
              \/ run.exit = "no merge"
              \/ (run.failedStep = 10 /\ Len(events) = StepSevenEvents)
      THEN dispatchFinishedStatus
      ELSE StatusDone

\* an issue that was done before the run is in_progress after a run that found
\* nothing to publish
C27_Witness ==
  /\ RunEnded
  /\ run.before = StatusDone
  /\ run.exit = "no changes"
  /\ issues[DispatchIssue] = StatusInProgress

\* the events of a status change to this status, in the order of their hooks
HookOrder(status) ==
  IF status = StatusDone THEN AllThree ELSE <<IssueUpdated, IssueStatusChange>>

\* how many hooks run when the hook at position k is the first to fail (0: none)
RunUntil(order, k) == IF k = 0 \/ k > Len(order) THEN Len(order) ELSE k

FirstFailing(h, n) ==
  IF \E k \in 1..n : ~h[k] THEN CHOOSE k \in 1..n : ~h[k] /\ \A j \in 1..(k - 1) : h[j] ELSE 0

\* C30: in updateIssueStatus and in the merged branch of the monitor the new
\* status is in the store whether the hooks succeed or not: when a hook fails the
\* operation returns an error, the stored status is the new one, the hooks before
\* the failing one and the failing one have run and no later hook has. (A status
\* that the store rejects is not written and fires no hook.)
C30_NoRollbackOnHookFailure ==
  /\ Called("updateIssueStatus") =>
       LET dest == calc.arg.status
           order == HookOrder(dest)
           k == FirstFailing(calc.arg.hooks, Len(order))
       IN IF ~IssueValidateStatus(dest)
          THEN calc.out.err /\ issues[DispatchIssue] = StatusTodo /\ events = <<>>
          ELSE /\ issues[DispatchIssue] = dest
               /\ calc.out.err <=> k # 0
               /\ [i \in 1..Len(events) |-> events[i].event] = SubSeq(order, 1, RunUntil(order, k))
               /\ \A i \in 1..Len(events) : events[i].ok <=> i # k
  /\ (Called("watchLink") /\ calc.arg.view.ok /\ SaysMerged(calc.arg.view.view)) =>
       /\ issues["TRK-1"] = StatusDone
       /\ calc.out.err <=> calc.arg.hookFail # 0
       /\ [i \in 1..Len(calc.out.events) |-> calc.out.events[i].event]
            = SubSeq(AllThree, 1, RunUntil(AllThree, calc.arg.hookFail))

\* updateIssueStatus to done with a failing issue.status_changed hook: the call
\* returns an error, the issue is done, issue.completed was not fired
C30_Witness ==
  /\ Called("updateIssueStatus")
  /\ calc.arg.status = StatusDone
  /\ calc.arg.hooks = <<TRUE, FALSE, TRUE>>
  /\ calc.out.err
  /\ issues[DispatchIssue] = StatusDone
  /\ Len(events) = 2

====
